---- MODULE Spec2Model ----
(***************************************************************************)
(* A model of leadbutt (cloudwatch-to-graphite): the option merge, the     *)
(* window computation, the retried CloudWatch call, gap padding, the two   *)
(* line formatters and the run that drives them.                           *)
(*                                                                         *)
(* Conventions.  A Python str is a TLA+ string; Chars gives its            *)
(* characters, and every formatted name is a sequence of one-character     *)
(* strings.  A dict is a function whose DOMAIN is its key set.  None is    *)
(* the empty tuple and a present optional value v is <<v>>.  A datetime    *)
(* and an epoch time are integers in milliseconds (the microsecond field   *)
(* of a datetime is kept at millisecond resolution).                       *)
(***************************************************************************)
EXTENDS Integers, Sequences, FiniteSets, TLC

VARIABLES
    \* ---- the interpreter and the command line (fixed during a run)
    py3,              \* TRUE: Python 3 build, FALSE: Python 2 (leadbutt.py:33)
    cli_options,      \* {'Period': .., 'Count': ..} built by main
    interval,         \* -i, in ms
    max_interval,     \* -m, in ms
    config,           \* the parsed YAML configuration
    call_ms,          \* how long a remote call takes in this run, in ms
    \* ---- the run of leadbutt()
    pc,               \* position in leadbutt()
    now,              \* the wall clock, epoch ms
    defaults_now,     \* the module global DEFAULT_OPTIONS as it is now
    mi,               \* index of the current entry of config['Metrics']
    ni,               \* index of the current name of metric_names
    options,          \* the options of the current metric / of the log pass
    utcnow_read,      \* the value datetime.utcnow()/now() returned
    start_time,
    end_time,
    attempt_number,   \* Retrying.call: attempt_number
    first_attempt_ms, \* Retrying.call: start_time
    results,          \* what the remote call returned
    streams,          \* log stream names
    si,               \* index of the current stream
    out,              \* the lines written to sys.stdout
    error,            \* the exception that ended the run, "" if none
    \* ---- observations of the run (history, not program state)
    windows,          \* number of window computations so far
    fetch_log,        \* one record per remote call attempt
    waits,            \* the backoff waits of the current retried call
    attempt_at,       \* the clock when the latest attempt of that call began
    failures,         \* failed remote calls so far
    origins,          \* for each line of out, the metric name or stream it is for
    \* ---- direct calls of single functions
    fn,               \* which function is called
    arg,              \* its arguments
    ret               \* what it returned

run_vars == <<pc, now, defaults_now, mi, ni, options, utcnow_read, start_time,
              end_time, attempt_number, first_attempt_ms, results, streams, si,
              out, error, windows, fetch_log, waits, attempt_at, failures,
              origins>>
env_vars == <<py3, cli_options, interval, max_interval, config, call_ms>>
fn_vars == <<fn, arg, ret>>
vars == <<env_vars, run_vars, fn_vars>>

None == << >>
Some(v) == <<v>>

\* dict.update: every key of b overwrites or adds to a
dict_update(a, b) ==
    [k \in DOMAIN a \cup DOMAIN b |-> IF k \in DOMAIN b THEN b[k] ELSE a[k]]

\* a dict with one more key
dict_set(d, k, v) == dict_update(d, [x \in {k} |-> v])

(***************************************************************************)
(* Strings                                                                 *)
(***************************************************************************)
Chars ==
    ("" :> << >>)
    @@ ("." :> <<".">>)
    @@ ("CW/" :> <<"C","W","/">>)
    @@ ("cloudwatch." :> <<"c","l","o","u","d","w","a","t","c","h",".">>)
    @@ ("AWS/EC2" :> <<"A","W","S","/","E","C","2">>)
    @@ ("AWS/RDS" :> <<"A","W","S","/","R","D","S">>)
    @@ ("CPU" :> <<"C","P","U">>)
    @@ ("Net/In" :> <<"N","e","t","/","I","n">>)
    @@ ("i-1" :> <<"i","-","1">>)
    @@ ("db-A" :> <<"d","b","-","A">>)
    @@ ("Sum" :> <<"S","u","m">>)
    @@ ("Average" :> <<"A","v","e","r","a","g","e">>)
    @@ ("Count" :> <<"C","o","u","n","t">>)
    @@ ("Percent" :> <<"P","e","r","c","e","n","t">>)
    @@ ("Kilobytes" :> <<"K","i","l","o","b","y","t","e","s">>)
    @@ ("Bytes/Second" :> <<"B","y","t","e","s","/","S","e","c","o","n","d">>)
    @@ ("Kilobytes/Second" :>
          <<"K","i","l","o","b","y","t","e","s","/","S","e","c","o","n","d">>)
    @@ ("IO/Second" :> <<"I","O","/","S","e","c","o","n","d">>)
    @@ ("Milliseconds" :> <<"M","i","l","l","i","s","e","c","o","n","d","s">>)
    @@ ("cpuUtilization" :>
          <<"c","p","u","U","t","i","l","i","z","a","t","i","o","n">>)
    @@ ("swap" :> <<"s","w","a","p">>)
    @@ ("diskIO" :> <<"d","i","s","k","I","O">>)
    @@ ("network" :> <<"n","e","t","w","o","r","k">>)
    @@ ("physicalDeviceIO" :>
          <<"p","h","y","s","i","c","a","l","D","e","v","i","c","e","I","O">>)
    @@ ("user" :> <<"u","s","e","r">>)
    @@ ("free" :> <<"f","r","e","e">>)
    @@ ("util" :> <<"u","t","i","l">>)
    @@ ("rx" :> <<"r","x">>)
    @@ ("device" :> <<"d","e","v","i","c","e">>)
    @@ ("interface" :> <<"i","n","t","e","r","f","a","c","e">>)
    @@ ("xvda" :> <<"x","v","d","a">>)
    @@ ("eth0" :> <<"e","t","h","0">>)
    @@ ("newStat" :> <<"n","e","w","S","t","a","t">>)
    @@ ("system" :> <<"s","y","s","t","e","m">>)
    @@ ("threads" :> <<"t","h","r","e","a","d","s">>)

UpperCase == <<"A","B","C","D","E","F","G","H","I","J","K","L","M",
               "N","O","P","Q","R","S","T","U","V","W","X","Y","Z">>
LowerCase == <<"a","b","c","d","e","f","g","h","i","j","k","l","m",
               "n","o","p","q","r","s","t","u","v","w","x","y","z">>

IsUpper(c) == \E i \in DOMAIN UpperCase : UpperCase[i] = c

\* str.lower() on one character
lower_char(c) ==
    IF IsUpper(c)
    THEN LowerCase[CHOOSE i \in DOMAIN UpperCase : UpperCase[i] = c]
    ELSE c

\* str.lower()
str_lower(s) == [i \in DOMAIN s |-> lower_char(s[i])]

\* str.replace(old, new) for one-character old and new
str_replace(s, old, new) == [i \in DOMAIN s |-> IF s[i] = old THEN new ELSE s[i]]

(***************************************************************************)
(* Values read from YAML or decoded from a log message carry their Python  *)
(* type, which the code inspects (isinstance, type(..) is ..).             *)
(***************************************************************************)
\* One record shape for all of them: the field that goes with the type holds
\* the value.  A dict is its <<key, value>> items in iteration order.
YNone == [type |-> "none", s |-> "", n |-> 0, list |-> << >>, dict |-> << >>,
          dicts |-> << >>]
YStr(s) == [YNone EXCEPT !.type = "str", !.s = s]
YInt(n) == [YNone EXCEPT !.type = "int", !.n = n]
YFloat(n) == [YNone EXCEPT !.type = "float", !.n = n]
\* a list of str
YList(l) == [YNone EXCEPT !.type = "list", !.list = l]
YDict(items) == [YNone EXCEPT !.type = "dict", !.dict = items]
\* a list of dicts
YDictList(ds) == [YNone EXCEPT !.type = "list", !.dicts = ds]

\* A template is a sequence of literal pieces and %(field)s references.
Lit(s) == [lit |-> TRUE, text |-> s]
Fld(f) == [lit |-> FALSE, text |-> f]

\* formatter % context raises KeyError when a referenced field is no key of context
fmt_raises(formatter, context) ==
    \E i \in DOMAIN formatter :
        ~formatter[i].lit /\ formatter[i].text \notin DOMAIN context

RECURSIVE fmt(_, _)
\* formatter % context, as characters
fmt(formatter, context) ==
    IF formatter = << >> THEN << >>
    ELSE (IF Head(formatter).lit
          THEN Chars[Head(formatter).text]
          ELSE Chars[context[Head(formatter).text].s])
         \o fmt(Tail(formatter), context)

\* a variant without the lower()
metric_name_of_unlowered(formatter, context) ==
    str_replace(fmt(formatter, context), "/", ".")

\* (formatter % context).replace('/', '.').lower()
metric_name_of(formatter, context) ==
    str_lower(str_replace(fmt(formatter, context), "/", "."))

(***************************************************************************)
(* get_options                                                             *)
(***************************************************************************)
DefaultFormatter ==
    << Lit("cloudwatch."), Fld("Namespace"), Lit("."), Fld("dimension"),
       Lit("."), Fld("MetricName"), Lit("."), Fld("statistic"), Lit("."),
       Fld("Unit") >>

DEFAULT_OPTIONS ==
    [Period |-> 1, Count |-> 5, Formatter |-> DefaultFormatter]

\* options.update(x) unless x is None
update_unless_none(opts, x) ==
    IF x = None THEN opts ELSE dict_update(opts, x[1])

\* a variant that applies the per-metric options last
get_options_local_last(defaults, config_options, local_options, cli_opts) ==
    [ret |-> update_unless_none(
                 update_unless_none(
                     update_unless_none(defaults, config_options),
                     cli_opts),
                 local_options),
     DEFAULT_OPTIONS |-> defaults,
     config_options |-> config_options,
     local_options |-> local_options,
     cli_options |-> cli_opts]

\* get_options: the returned dict and the dicts it was given, as they are after
\* the call (options is a copy, so DEFAULT_OPTIONS and the arguments are as before)
get_options(defaults, config_options, local_options, cli_opts) ==
    [ret |-> update_unless_none(
                 update_unless_none(
                     update_unless_none(defaults, config_options),
                     local_options),
                 cli_opts),
     DEFAULT_OPTIONS |-> defaults,
     config_options |-> config_options,
     local_options |-> local_options,
     cli_options |-> cli_opts]

(***************************************************************************)
(* value_pad_results                                                       *)
(***************************************************************************)
\* t - datetime.timedelta(microseconds=t.microsecond)
strip_subsecond(t) == t - (t % 1000)

\* `not filter(lambda x: x['Timestamp'] == this_time, results)`:
\* Python 2's filter returns a list, empty when nothing matches; Python 3's
\* returns an iterator object, which is always true
no_result_at(rs, this_time, is_py3) ==
    IF is_py3 THEN FALSE
    ELSE ~\E i \in DOMAIN rs : rs[i]["Timestamp"] = this_time

RECURSIVE pad_loop(_, _, _, _, _, _)
\* the while loop of value_pad_results; interval > 0
pad_loop(rs, this_time, end, step_interval, value, is_py3) ==
    IF ~(this_time < end) THEN rs
    ELSE pad_loop(
             IF no_result_at(rs, this_time, is_py3)
             THEN Append(rs, [Timestamp |-> this_time, Sum |-> value,
                              Unit |-> "Count"])
             ELSE rs,
             this_time + step_interval * 60 * 1000, end, step_interval, value,
             is_py3)

value_pad_results(rs, start, end, pad_interval, value, is_py3) ==
    pad_loop(rs, strip_subsecond(start), strip_subsecond(end), pad_interval,
             value, is_py3)

(***************************************************************************)
(* The enhanced monitoring (log) side                                      *)
(***************************************************************************)
list_map ==
    [network |-> "interface", diskIO |-> "device", fileSys |-> "name",
     processList |-> "name"]

unit_map ==
    [cpuUtilization |->
        [guest |-> "Percent", irq |-> "Percent", system |-> "Percent",
         wait |-> "Percent", idle |-> "Percent", user |-> "Percent",
         total |-> "Percent", steal |-> "Percent", nice |-> "Percent"],
     loadAverageMinute |->
        [fifteen |-> "Count", five |-> "Count", one |-> "Count"],
     memory |->
        [writeback |-> "Kilobytes", hugePagesFree |-> "Count",
         hugePagesRsvd |-> "Count", hugePagesSurp |-> "Count",
         hugePagesTotal |-> "Count", cached |-> "Kilobytes",
         hugePagesSize |-> "Kilobytes", pageTables |-> "Kilobytes",
         dirty |-> "Kilobytes", mapped |-> "Kilobytes", active |-> "Kilobytes",
         total |-> "Kilobytes", slab |-> "Kilobytes", buffers |-> "Kilobytes"],
     tasks |->
        [sleeping |-> "Count", zombie |-> "Count", running |-> "Count",
         stopped |-> "Count", total |-> "Count", blocked |-> "Count"],
     swap |->
        [cached |-> "Kilobytes", total |-> "Kilobytes", free |-> "Kilobytes"],
     network |->
        [rx |-> "Bytes/Second", tx |-> "Bytes/Second"],
     diskIO |->
        [writeKbPS |-> "Kilobytes/Second", readIOsPS |-> "IO/Second",
         await |-> "Milliseconds", readKbPS |-> "Kilobytes/Second",
         rrqmPS |-> "IO/Second", util |-> "Percent",
         avgQueueLen |-> "Milliseconds", tps |-> "Count",
         readKb |-> "Kilobytes", writeKb |-> "Kilobytes",
         avgReqSz |-> "Kilobytes", wrqmPS |-> "IO/Second",
         writeIOsPS |-> "IO/Second"],
     fileSys |->
        [used |-> "Kilobytes", usedFiles |-> "Count",
         usedFilePercent |-> "Percent", maxFiles |-> "Count",
         total |-> "Kilobytes", usedPercent |-> "Percent"],
     processList |->
        [vss |-> "Kilobytes", tgid |-> "Count", parentID |-> "Count",
         memoryUsedPc |-> "Percent", cpuUsedPc |-> "Percent", id |-> "Count",
         rss |-> "Kilobytes"]]

\* a call's outcome: the value it returned, or the exception it raised
Returned(v) == [raised |-> "", v |-> v]
Raised(e) == [raised |-> e, v |-> << >>]

\* unit_map[category].get(statistic, 'Count')
unit_type_map(category, statistic) ==
    IF category \notin DOMAIN unit_map THEN Raised("KeyError")
    ELSE IF statistic \in DOMAIN unit_map[category]
         THEN Returned(unit_map[category][statistic])
         ELSE Returned("Count")

\* the value of key k in a dict given as <<key, value>> items
item_value(items, k) == items[CHOOSE i \in DOMAIN items : items[i][1] = k][2]
has_key(items, k) == \E i \in DOMAIN items : items[i][1] = k

\* statistic_dict[list_map.get(category)]: list_map.get gives None for a
\* category that is no key of it, and None is no key of statistic_dict
log_list_map(category, statistic_dict) ==
    IF category \in DOMAIN list_map /\ has_key(statistic_dict, list_map[category])
    THEN Returned(item_value(statistic_dict, list_map[category]))
    ELSE Raised("KeyError")

\* the state of process_log_results' loops: the shared context dict, the lines
\* written so far, and the exception that ended the call ("" while running)
LogState(ctx, lines, err) == [ctx |-> ctx, lines |-> lines, error |-> err]

is_number(value) == value.type \in {"int", "float"}

\* output_log_results: the line written
log_line(formatter, ingestion_time, context, value) ==
    [name |-> metric_name_of(formatter, context), value |-> value,
     ts |-> ingestion_time]

RECURSIVE statistic_loop(_, _, _, _, _)
\* `for statistic in ...keys()` of either branch: pairs are the (statistic,
\* value) items, formatter is options['Formatter'] or options['ListFormatter']
statistic_loop(pairs, category, formatter, ingestion_time, st) ==
    IF pairs = << >> \/ st.error # "" THEN st
    ELSE LET statistic == pairs[1][1]
             value == pairs[1][2]
             c1 == dict_set(st.ctx, "Statistic", YStr(statistic))
             unit == unit_type_map(category, statistic)
             c2 == dict_set(c1, "Unit", YStr(unit.v))
         IN  IF ~is_number(value)
             THEN statistic_loop(Tail(pairs), category, formatter,
                                 ingestion_time, LogState(c1, st.lines, ""))
             ELSE IF unit.raised # ""
             THEN LogState(c1, st.lines, unit.raised)
             ELSE IF fmt_raises(formatter, c2)
             THEN LogState(c2, st.lines, "KeyError")
             ELSE statistic_loop(
                      Tail(pairs), category, formatter, ingestion_time,
                      LogState(c2,
                               Append(st.lines,
                                      log_line(formatter, ingestion_time, c2,
                                               value.n)),
                               ""))

RECURSIVE list_loop(_, _, _, _, _)
\* `for statistic_dict in statistics` of the list branch
list_loop(dicts, category, list_formatter, ingestion_time, st) ==
    IF dicts = << >> \/ st.error # "" THEN st
    ELSE LET statistic_dict == dicts[1]
             sub == log_list_map(category, statistic_dict)
             c1 == dict_set(st.ctx, "ListCategory", sub.v)
         IN  IF sub.raised # "" THEN LogState(st.ctx, st.lines, sub.raised)
             ELSE list_loop(Tail(dicts), category, list_formatter,
                            ingestion_time,
                            statistic_loop(statistic_dict, category,
                                           list_formatter, ingestion_time,
                                           LogState(c1, st.lines, "")))

RECURSIVE category_loop(_, _, _, _)
\* `for category in message.keys()`
category_loop(items, opts, ingestion_time, st) ==
    IF items = << >> \/ st.error # "" THEN st
    ELSE LET category == items[1][1]
             statistics == items[1][2]
             c1 == dict_set(st.ctx, "MetricName", YStr(category))
             s1 == LogState(c1, st.lines, "")
         IN  category_loop(
                 Tail(items), opts, ingestion_time,
                 IF statistics.type = "dict"
                 THEN statistic_loop(statistics.dict, category, opts["Formatter"],
                                     ingestion_time, s1)
                 ELSE IF statistics.type = "list"
                 THEN list_loop(statistics.dicts, category, opts["ListFormatter"],
                                ingestion_time, s1)
                 ELSE s1)

\* result['ingestionTime'] / 1000: floor division in Python 2, true division in
\* Python 3; the quotient is kept as whole seconds and the remaining ms
ingestion_time_of(ms, is_py3) ==
    [s |-> ms \div 1000, frac_ms |-> IF is_py3 THEN ms % 1000 ELSE 0]

RECURSIVE result_loop(_, _, _, _)
\* `for result in results` of process_log_results.  An event's message is
\* [decodes, items]: whether ast.literal_eval accepts the text, and the dict
\* it gives.
result_loop(events, opts, is_py3, st) ==
    IF events = << >> \/ st.error # "" THEN st
    ELSE LET result == events[1]
             message == result.message
             c1 == dict_set(dict_set(st.ctx, "Dimension",
                                     item_value(message.items, "instanceID")),
                            "Namespace", YStr("AWS/RDS"))
         IN  IF ~message.decodes THEN LogState(st.ctx, st.lines, "ValueError")
             ELSE IF ~has_key(message.items, "instanceID")
             THEN LogState(st.ctx, st.lines, "KeyError")
             ELSE result_loop(
                      Tail(events), opts, is_py3,
                      category_loop(message.items, opts,
                                    ingestion_time_of(result.ingestionTime,
                                                      is_py3),
                                    LogState(c1, st.lines, "")))

EmptyDict == [k \in {} |-> 0]

\* process_log_results: the lines it wrote and the exception it raised, if any
process_log_results(events, opts, is_py3) ==
    LET st == result_loop(events, opts, is_py3, LogState(EmptyDict, << >>, ""))
    IN  [lines |-> st.lines, error |-> st.error]

(***************************************************************************)
(* output_results                                                          *)
(***************************************************************************)
\* a str-or-list configuration value as a list (the isinstance(.., list) tests)
as_list(y) == IF y.type = "list" THEN y.list ELSE << y.s >>

\* context['dimension'] = list(metric['Dimensions'].values())[0], '' on
\* AttributeError; a missing key and an empty mapping raise
dimension_of(metric) ==
    IF "Dimensions" \notin DOMAIN metric THEN Raised("KeyError")
    ELSE IF metric["Dimensions"].type = "dict"
    THEN IF metric["Dimensions"].dict = << >> THEN Raised("IndexError")
         ELSE Returned(metric["Dimensions"].dict[1][2])
    ELSE Returned(YStr(""))

RECURSIVE write_lines(_, _, _, _, _, _)
\* the two nested loops of output_results from result number ri, statistic
\* number ki on: lines written so far and the exception that stopped them
write_lines(rs, stat_keys, formatter, context, ri, ki) ==
    IF ri > Len(rs) THEN [lines |-> << >>, error |-> ""]
    ELSE IF ki > Len(stat_keys)
    THEN write_lines(rs, stat_keys, formatter, context, ri + 1, 1)
    ELSE LET result == rs[ri]
             statistic == stat_keys[ki]
             c1 == dict_set(dict_set(context, "statistic", YStr(statistic)),
                            "Unit", YStr(result["Unit"]))
             rest == write_lines(rs, stat_keys, formatter, c1, ri, ki + 1)
         IN  IF fmt_raises(formatter, c1) \/ statistic \notin DOMAIN result
             THEN [lines |-> << >>, error |-> "KeyError"]
             ELSE [lines |->
                      << [name |-> metric_name_of(formatter, c1),
                          value |-> result[statistic],
                          ts |-> [s |-> result["Timestamp"] \div 1000,
                                  frac_ms |-> 0]] >> \o rest.lines,
                   error |-> rest.error]

\* output_results: the lines it wrote and the exception it raised, if any
output_results(rs, metric, opts) ==
    LET dimension == dimension_of(metric)
        context == dict_set(metric, "dimension", dimension.v)
    IN  IF dimension.raised # ""
        THEN [lines |-> << >>, error |-> dimension.raised]
        ELSE IF rs = << >> THEN [lines |-> << >>, error |-> ""]
        ELSE write_lines(rs, as_list(metric["Statistics"]), opts["Formatter"],
                         context, 1, 1)

(***************************************************************************)
(* The retry decorator of get_metric_statistics.  @retry(...) wraps the    *)
(* call in retrying.Retrying.call: attempt, and after a failure stop if    *)
(* the time since the first attempt has reached stop_max_delay, else sleep *)
(* exponential_sleep(attempt_number) and attempt again.                    *)
(***************************************************************************)
\* stop_max_delay=cli_options['Count'] * cli_options['Period'] * 60 * 1000
stop_max_delay(cli) == cli["Count"] * cli["Period"] * 60 * 1000

\* a variant that starts the backoff at the multiplier itself
exponential_sleep_from_multiplier(previous_attempt_number, multiplier, max_wait) ==
    LET result == multiplier * (2 ^ (previous_attempt_number - 1))
    IN  IF result > max_wait THEN max_wait
        ELSE IF result < 0 THEN 0 ELSE result

\* wait_exponential_multiplier * 2 ** previous_attempt_number, at most
\* wait_exponential_max (attempt numbers start at 1)
exponential_sleep(previous_attempt_number, multiplier, max_wait) ==
    LET result == multiplier * (2 ^ previous_attempt_number)
    IN  IF result > max_wait THEN max_wait
        ELSE IF result < 0 THEN 0 ELSE result

\* a variant that takes stop_max_delay to be in seconds
should_stop_in_seconds(delay_since_first_attempt_ms, cli) ==
    delay_since_first_attempt_ms >= cli["Count"] * cli["Period"] * 60

\* stop_after_delay, evaluated after a failed attempt
should_stop(delay_since_first_attempt_ms, cli) ==
    delay_since_first_attempt_ms >= stop_max_delay(cli)

(***************************************************************************)
(* Inputs of a run                                                         *)
(***************************************************************************)
MaxFailures == 4

Dims == YDict(<< <<"InstanceId", YStr("i-1")>> >>)

MetricCpu ==
    [Namespace |-> YStr("AWS/EC2"), MetricName |-> YStr("CPU"),
     Statistics |-> YStr("Average"), Dimensions |-> Dims,
     Unit |-> YStr("Percent")]
MetricPair ==
    [Namespace |-> YStr("AWS/EC2"), MetricName |-> YList(<<"CPU", "Net/In">>),
     Statistics |-> YList(<<"Sum", "Average">>), Dimensions |-> Dims,
     Options |-> [NullIsZero |-> ("Net/In" :> 1)]]
MetricNullDims ==
    [Namespace |-> YStr("AWS/EC2"), MetricName |-> YStr("CPU"),
     Statistics |-> YStr("Sum"), Dimensions |-> YNone,
     Options |-> [NullIsZero |-> ("CPU" :> 1)]]
MetricNoDims ==
    [Namespace |-> YStr("AWS/EC2"), MetricName |-> YStr("CPU"),
     Statistics |-> YStr("Sum")]


ShortFormatter == << Lit("CW/"), Fld("Namespace"), Lit("."), Fld("MetricName") >>
LogFormatter ==
    << Fld("Namespace"), Lit("."), Fld("Dimension"), Lit("."),
       Fld("MetricName"), Lit("."), Fld("Statistic"), Lit("."), Fld("Unit") >>
LogListFormatter ==
    << Fld("Dimension"), Lit("."), Fld("MetricName"), Lit("."),
       Fld("ListCategory"), Lit("."), Fld("Statistic") >>

\* The configurations of the runs.  Options is config.get('Options'), Metrics
\* is config['Metrics'] (None: no such key), EnhancedMonitoring is
\* config.get('EnhancedMonitoring', False) (None: False).
ConfigChoices ==
    { [Options |-> None,
       Metrics |-> Some(<<MetricPair, MetricCpu>>),
       EnhancedMonitoring |-> None],
      [Options |-> Some([Formatter |-> ShortFormatter]),
       Metrics |-> Some(<<MetricCpu>>),
       EnhancedMonitoring |->
           Some([LogGroup |-> "RDSOSMetrics", Formatter |-> LogFormatter,
                 ListFormatter |-> LogListFormatter])],
      [Options |-> None,
       Metrics |-> None,
       EnhancedMonitoring |-> Some([LogGroup |-> "RDSOSMetrics"])],
      [Options |-> None,
       Metrics |-> Some(<<MetricNullDims, MetricNoDims>>),
       EnhancedMonitoring |-> None] }

\* the cli_options main builds from -p and -n
CliOptionChoices == { [Period |-> 1, Count |-> 1], [Period |-> 1, Count |-> 2] }

\* -i and -m
CliTimings == { [interval |-> 8000, max_interval |-> 40000] }

\* time.time() when the run starts: half a second past a period boundary,
\* half a second before one
StartClocks == { 120500, 179500 }

\* how long the remote calls of a run take, and how far the clock moves
\* between the two clock reads of a window computation
CallDurations == { 0, 500 }
ReadGaps == { 0, 500 }

EventCpu ==
    [ingestionTime |-> 121500,
     message |-> [decodes |-> TRUE,
                  items |-> << <<"instanceID", YStr("db-A")>>,
                               <<"cpuUtilization",
                                 YDict(<< <<"user", YFloat(12)>> >>)>> >>]]
EventDisk ==
    [ingestionTime |-> 122000,
     message |-> [decodes |-> TRUE,
                  items |-> << <<"instanceID", YStr("db-A")>>,
                               <<"diskIO",
                                 YDictList(<< << <<"device", YStr("xvda")>>,
                                             <<"util", YInt(3)>> >> >>)>>,
                               <<"physicalDeviceIO",
                                 YDictList(<< << <<"device", YStr("xvda")>>,
                                             <<"util", YInt(4)>> >> >>)>> >>]]

\* what get_log_events can return as results['events']
EventChoices == { << >>, <<EventCpu>>, <<EventDisk>> }

\* what describe_log_streams can return, as stream names
StreamChoices == { << >>, <<"s1">>, <<"s1", "s2">> }

(***************************************************************************)
(* The run: leadbutt(config_file, cli_options, interval=, max_interval=)   *)
(* as called by main                                                       *)
(***************************************************************************)
config_options == config["Options"]
Metrics == IF config["Metrics"] = None THEN << >> ELSE config["Metrics"][1]
metric == Metrics[mi]
metric_names == as_list(metric["MetricName"])
metric_name == metric_names[ni]
\* this_metric = metric.copy(); this_metric['MetricName'] = metric_name
this_metric == dict_set(metric, "MetricName", YStr(metric_name))
\* metric.get('Options')
local_options_of(m) == IF "Options" \in DOMAIN m THEN Some(m["Options"]) ELSE None

\* a variant that computes the window again for every name
next_name_pc_recomputing == "metric_options"

\* the statement reached when the metric_names loop goes on to its next name:
\* the call of get_metric_statistics (end_time and start_time are set before
\* the loop, once for the entry of Metrics)
next_name_pc == "fetch"

\* the statement reached when the Metrics loop goes on to entry number i
after_metric(i) == IF i <= Len(Metrics) THEN "metric_options" ELSE "enhanced"

\* no exception so far / the exception that ends the run and the call that raised it
NoError == [type |-> "", at |-> ""]

\* a variant in which leadbutt catches the exception and goes on to the log pass
Abort_and_go_on(e, site) == pc' = "enhanced" /\ error' = [type |-> e, at |-> site]

\* leadbutt has no exception handler: an exception raised in it ends the run
Abort(e, site) == pc' = "aborted" /\ error' = [type |-> e, at |-> site]

\* config = get_config(..) .. conn = connect_to_region(..); `if 'Metrics' in config`
Start ==
    /\ pc = "start"
    /\ mi' = 1
    /\ pc' = IF Len(Metrics) >= 1 THEN "metric_options" ELSE "enhanced"
    /\ UNCHANGED <<now, defaults_now, ni, options, utcnow_read, start_time,
                   end_time, attempt_number, first_attempt_ms, results, streams,
                   si, out, error, windows, fetch_log, waits, attempt_at,
                   failures, origins>>
    /\ UNCHANGED <<env_vars, fn_vars>>

\* options = get_options(..); period_local; count_local; and the first clock
\* read of the end_time expression, datetime.datetime.utcnow()
MetricOptions ==
    /\ pc = "metric_options"
    /\ LET r == get_options(defaults_now, config_options,
                            local_options_of(metric), Some(cli_options))
       IN  /\ options' = r.ret
           /\ defaults_now' = r.DEFAULT_OPTIONS
    /\ utcnow_read' = now
    /\ pc' = "metric_window"
    /\ UNCHANGED <<now, mi, ni, start_time, end_time, attempt_number,
                   first_attempt_ms, results, streams, si, out, error, windows,
                   fetch_log, waits, attempt_at, failures, origins>>
    /\ UNCHANGED <<env_vars, fn_vars>>

\* utcnow - timedelta(seconds=int(time.time()) % period_local), the two clock
\* values being those of two reads
window_end(utcnow, time_time, period_local) ==
    utcnow - ((time_time \div 1000) % period_local) * 1000

window_start(end, period_local, count_local) ==
    end - period_local * count_local * 1000

\* the second clock read, end_time, start_time, unit, metric_names
MetricWindow ==
    /\ pc = "metric_window"
    /\ \E gap \in ReadGaps :
         LET period_local == options["Period"] * 60
             count_local == options["Count"]
             e == window_end(utcnow_read, now + gap, period_local)
         IN  /\ now' = now + gap
             /\ end_time' = e
             /\ start_time' = window_start(e, period_local, count_local)
    /\ windows' = windows + 1
    /\ ni' = 1
    /\ pc' = IF Len(metric_names) >= 1 THEN "fetch" ELSE after_metric(mi + 1)
    /\ mi' = IF Len(metric_names) >= 1 THEN mi ELSE mi + 1
    /\ UNCHANGED <<defaults_now, options, utcnow_read, attempt_number,
                   first_attempt_ms, results, streams, si, out, error,
                   fetch_log, waits, attempt_at, failures, origins>>
    /\ UNCHANGED <<env_vars, fn_vars>>

\* this_metric = ..; the arguments of get_metric_statistics are evaluated
\* (metric['Dimensions'] raises KeyError when absent) and Retrying.call begins
FetchBegin ==
    /\ pc = "fetch"
    /\ IF "Namespace" \in DOMAIN metric /\ "Statistics" \in DOMAIN metric
          /\ "Dimensions" \in DOMAIN metric
       THEN /\ pc' = "attempt"
            /\ error' = error
            /\ first_attempt_ms' = now
            /\ attempt_at' = now
            /\ attempt_number' = 1
            /\ waits' = << >>
            /\ fetch_log' = Append(fetch_log,
                                   [mi |-> mi, ni |-> ni, window |-> windows,
                                    start_time |-> start_time,
                                    end_time |-> end_time])
       ELSE /\ Abort("KeyError", "leadbutt")
            /\ UNCHANGED <<first_attempt_ms, attempt_at, attempt_number, waits,
                           fetch_log>>
    /\ UNCHANGED <<now, defaults_now, mi, ni, options, utcnow_read, start_time,
                   end_time, results, streams, si, out, windows, failures,
                   origins>>
    /\ UNCHANGED <<env_vars, fn_vars>>

\* a data point as connection.get_metric_statistics returns it
Point(t, stats, unit) ==
    [k \in {"Timestamp", "Unit"} \cup {stats[i] : i \in DOMAIN stats} |->
        IF k = "Timestamp" THEN t ELSE IF k = "Unit" THEN unit ELSE 1]

\* what the service can answer for the window: nothing, or the point of one
\* of its periods
ServiceResults(start, period_local, count_local, stats) ==
    { << >> } \cup
    { << Point(strip_subsecond(start) + k * period_local * 1000, stats,
               "Percent") >> : k \in 0 .. (count_local - 1) }

\* an attempt of get_metric_statistics that returns
MetricCallReturns ==
    /\ pc = "attempt"
    /\ now' = now + call_ms
    /\ results' \in ServiceResults(start_time, options["Period"] * 60,
                                    options["Count"],
                                    as_list(metric["Statistics"]))
    /\ attempt_at' = now
    /\ pc' = "output"
    /\ UNCHANGED <<defaults_now, mi, ni, options, utcnow_read, start_time,
                   end_time, attempt_number, first_attempt_ms, streams, si, out,
                   error, windows, fetch_log, waits, failures, origins>>
    /\ UNCHANGED <<env_vars, fn_vars>>

\* an attempt of get_metric_statistics that raises: Retrying.call stops and
\* re-raises once stop_max_delay has passed, and otherwise sleeps
MetricCallFails ==
    /\ pc = "attempt"
    /\ failures < MaxFailures
    /\ failures' = failures + 1
    /\ attempt_at' = now
    /\ LET d == call_ms
           delay_since_first_attempt_ms == (now + d) - first_attempt_ms
             sleep == exponential_sleep(attempt_number, interval, max_interval)
       IN  IF should_stop(delay_since_first_attempt_ms, cli_options)
           THEN /\ Abort("BotoServerError", "get_metric_statistics")
                /\ now' = now + d
                /\ UNCHANGED <<attempt_number, waits>>
           ELSE /\ now' = now + d + sleep
                /\ waits' = Append(waits, sleep)
                /\ attempt_number' = attempt_number + 1
                /\ UNCHANGED <<pc, error>>
    /\ UNCHANGED <<defaults_now, mi, ni, options, utcnow_read, start_time,
                   end_time, first_attempt_ms, results, streams, si, out,
                   windows, fetch_log, origins>>
    /\ UNCHANGED <<env_vars, fn_vars>>

\* `if 'NullIsZero' in options and metric_name in options['NullIsZero']`
pads(opts, name) ==
    "NullIsZero" \in DOMAIN opts /\ name \in DOMAIN opts["NullIsZero"]

Repeat(x, n) == [i \in 1 .. n |-> x]

\* value_pad_results if opted in, output_results, the pacing sleep, and on to
\* the next name or the next entry of Metrics
MetricOutput ==
    /\ pc = "output"
    /\ LET padded == IF pads(options, metric_name)
                     THEN value_pad_results(results, start_time, end_time,
                                            options["NullIsZero"][metric_name],
                                            0, py3)
                     ELSE results
           written == output_results(padded, this_metric, options)
       IN  /\ results' = padded
           /\ out' = out \o written.lines
           /\ origins' = origins \o Repeat([mi |-> mi, ni |-> ni, stream |-> ""],
                                            Len(written.lines))
           /\ IF written.error # ""
              THEN /\ Abort(written.error, "output_results")
                   /\ UNCHANGED <<now, mi, ni>>
              ELSE /\ now' = now + interval
                   /\ error' = error
                   /\ IF ni < Len(metric_names)
                      THEN /\ ni' = ni + 1
                           /\ mi' = mi
                           /\ pc' = next_name_pc
                      ELSE /\ ni' = ni
                           /\ mi' = mi + 1
                           /\ pc' = after_metric(mi + 1)
    /\ UNCHANGED <<defaults_now, options, utcnow_read, start_time, end_time,
                   attempt_number, first_attempt_ms, streams, si, windows,
                   fetch_log, waits, attempt_at, failures>>
    /\ UNCHANGED <<env_vars, fn_vars>>

\* config.get('EnhancedMonitoring', False)
enhanced_monitoring == config["EnhancedMonitoring"]

\* the options of the log pass: get_options(config_options, None, cli_options)
\* with Formatter and ListFormatter set from the EnhancedMonitoring section
log_options(base, em) ==
    LET o1 == IF "Formatter" \in DOMAIN em
              THEN dict_set(base, "Formatter", em["Formatter"]) ELSE base
    IN  dict_set(o1, "ListFormatter",
                 IF "ListFormatter" \in DOMAIN em THEN em["ListFormatter"]
                 ELSE o1["Formatter"])

\* int((datetime.now() - timedelta(seconds=int(time.time()) % period_local))
\*     .strftime("%s")) * 1000
log_window_end(dt_now, time_time, period_local) ==
    ((dt_now - ((time_time \div 1000) % period_local) * 1000) \div 1000) * 1000

\* `if enhanced_monitoring:` and the statements up to logs_conn
EnhancedBegin ==
    /\ pc = "enhanced"
    /\ IF enhanced_monitoring = None
       THEN /\ pc' = "done"
            /\ UNCHANGED <<now, defaults_now, options, utcnow_read, start_time,
                           end_time, windows>>
       ELSE /\ pc' = "describe_streams"
            /\ LET r == get_options(defaults_now, config_options, None,
                                    Some(cli_options))
               IN  /\ options' = log_options(r.ret, enhanced_monitoring[1])
                   /\ defaults_now' = r.DEFAULT_OPTIONS
            /\ utcnow_read' = now
            /\ windows' = windows + 1
            /\ \E gap \in ReadGaps :
                 LET period_local == cli_options["Period"] * 60
                     count_local == cli_options["Count"]
                     e == log_window_end(now, now + gap, period_local)
                 IN  /\ now' = now + gap
                     /\ end_time' = e
                     /\ start_time' = e - (period_local * count_local * 1000)
    /\ UNCHANGED <<mi, ni, attempt_number, first_attempt_ms, results, streams,
                   si, out, error, fetch_log, waits, attempt_at, failures,
                   origins>>
    /\ UNCHANGED <<env_vars, fn_vars>>

\* logs_conn.describe_log_streams(..) returns; streams = map(..)
DescribeStreamsReturns ==
    /\ pc = "describe_streams"
    /\ now' = now + call_ms
    /\ streams' \in StreamChoices
    /\ si' = 1
    /\ pc' = IF streams' = << >> THEN "done" ELSE "log_call"
    /\ UNCHANGED <<defaults_now, mi, ni, options, utcnow_read, start_time,
                   end_time, attempt_number, first_attempt_ms, results, out,
                   error, windows, fetch_log, waits, attempt_at, failures,
                   origins>>
    /\ UNCHANGED <<env_vars, fn_vars>>

\* logs_conn.describe_log_streams(..) raises
DescribeStreamsFails ==
    /\ pc = "describe_streams"
    /\ failures < MaxFailures
    /\ failures' = failures + 1
    /\ now' = now + call_ms
    /\ Abort("BotoServerError", "describe_log_streams")
    /\ UNCHANGED <<defaults_now, mi, ni, options, utcnow_read, start_time,
                   end_time, attempt_number, first_attempt_ms, results, streams,
                   si, out, windows, fetch_log, waits, attempt_at, origins>>
    /\ UNCHANGED <<env_vars, fn_vars>>

\* get_logs_statistics(..) returns
LogCallReturns ==
    /\ pc = "log_call"
    /\ attempt_at' = now
    /\ now' = now + call_ms
    /\ results' \in EventChoices
    /\ pc' = "log_process"
    /\ UNCHANGED <<defaults_now, mi, ni, options, utcnow_read, start_time,
                   end_time, attempt_number, first_attempt_ms, streams, si, out,
                   error, windows, fetch_log, waits, failures, origins>>
    /\ UNCHANGED <<env_vars, fn_vars>>

\* get_logs_statistics(..) raises: the function is not decorated, so the
\* exception of connection.get_log_events leaves leadbutt
LogCallFails ==
    /\ pc = "log_call"
    /\ failures < MaxFailures
    /\ failures' = failures + 1
    /\ attempt_at' = now
    /\ now' = now + call_ms
    /\ Abort("BotoServerError", "get_logs_statistics")
    /\ UNCHANGED <<defaults_now, mi, ni, options, utcnow_read, start_time,
                   end_time, attempt_number, first_attempt_ms, results, streams,
                   si, out, windows, fetch_log, waits, origins>>
    /\ UNCHANGED <<env_vars, fn_vars>>

\* process_log_results(results['events'], options); time.sleep(0.5)
LogProcess ==
    /\ pc = "log_process"
    /\ LET written == process_log_results(results, options, py3)
       IN  /\ out' = out \o written.lines
           /\ origins' = origins \o Repeat([mi |-> 0, ni |-> 0,
                                             stream |-> streams[si]],
                                            Len(written.lines))
           /\ IF written.error # ""
              THEN /\ Abort(written.error, "process_log_results")
                   /\ UNCHANGED <<now, si>>
              ELSE /\ now' = now + 500
                   /\ error' = error
                   /\ si' = si + 1
                   /\ pc' = IF si < Len(streams) THEN "log_call" ELSE "done"
    /\ UNCHANGED <<defaults_now, mi, ni, options, utcnow_read, start_time,
                   end_time, attempt_number, first_attempt_ms, results, streams,
                   windows, fetch_log, waits, attempt_at, failures>>
    /\ UNCHANGED <<env_vars, fn_vars>>

\* the state main leaves when it calls leadbutt
Init ==
    /\ py3 \in BOOLEAN
    /\ cli_options \in CliOptionChoices
    /\ \E t \in CliTimings :
         interval = t.interval /\ max_interval = t.max_interval
    /\ config \in ConfigChoices
    /\ call_ms \in CallDurations
    /\ pc = "start"
    /\ now \in StartClocks
    /\ defaults_now = DEFAULT_OPTIONS
    /\ mi = 1
    /\ ni = 1
    /\ options = DEFAULT_OPTIONS
    /\ utcnow_read = 0
    /\ start_time = 0
    /\ end_time = 0
    /\ attempt_number = 1
    /\ first_attempt_ms = 0
    /\ results = << >>
    /\ streams = << >>
    /\ si = 1
    /\ out = << >>
    /\ error = NoError
    /\ windows = 0
    /\ fetch_log = << >>
    /\ waits = << >>
    /\ attempt_at = 0
    /\ failures = 0
    /\ origins = << >>
    /\ fn = "leadbutt"
    /\ arg = << >>
    /\ ret = << >>

Next ==
    \/ Start
    \/ MetricOptions
    \/ MetricWindow
    \/ FetchBegin
    \/ MetricCallReturns
    \/ MetricCallFails
    \/ MetricOutput
    \/ EnhancedBegin
    \/ DescribeStreamsReturns
    \/ DescribeStreamsFails
    \/ LogCallReturns
    \/ LogCallFails
    \/ LogProcess

Spec == Init /\ [][Next]_vars

(***************************************************************************)
(* Direct calls of get_options, value_pad_results and process_log_results  *)
(* on inputs of their own.  pc is "call" before the call and "returned"    *)
(* after it; the variables of a run are not used.                          *)
(***************************************************************************)
NoRun ==
    /\ cli_options = [Period |-> 1, Count |-> 5]
    /\ interval = 50
    /\ max_interval = 4000
    /\ config = [Options |-> None, Metrics |-> None,
                 EnhancedMonitoring |-> None]
    /\ call_ms = 0
    /\ now = 0
    /\ defaults_now = DEFAULT_OPTIONS
    /\ mi = 1
    /\ ni = 1
    /\ options = DEFAULT_OPTIONS
    /\ utcnow_read = 0
    /\ start_time = 0
    /\ end_time = 0
    /\ attempt_number = 1
    /\ first_attempt_ms = 0
    /\ results = << >>
    /\ streams = << >>
    /\ si = 1
    /\ out = << >>
    /\ error = NoError
    /\ windows = 0
    /\ fetch_log = << >>
    /\ waits = << >>
    /\ attempt_at = 0
    /\ failures = 0
    /\ origins = << >>

NoRunUnchanged ==
    UNCHANGED <<now, mi, ni, options, utcnow_read, start_time, end_time,
                attempt_number, first_attempt_ms, results, streams, si, out,
                error, windows, fetch_log, waits, attempt_at, failures, origins,
                env_vars>>

\* ---- get_options
MaxOptVal == 2
OptKeys == { "Period", "NullIsZero" }
OptDicts == UNION { [K -> 1 .. MaxOptVal] : K \in SUBSET OptKeys }
OptTiers == { None } \cup { Some(d) : d \in OptDicts }

InitOptions ==
    /\ NoRun
    /\ py3 = FALSE
    /\ pc = "call"
    /\ fn = "get_options"
    /\ arg \in [config_options : OptTiers, local_options : OptTiers,
                 cli_options : OptTiers]
    /\ ret = << >>

CallGetOptions ==
    /\ pc = "call"
    /\ fn = "get_options"
    /\ LET r == get_options(defaults_now, arg.config_options,
                            arg.local_options, arg.cli_options)
       IN  /\ ret' = r
           /\ defaults_now' = r.DEFAULT_OPTIONS
    /\ pc' = "returned"
    /\ UNCHANGED <<fn, arg>>
    /\ NoRunUnchanged

SpecOptions == InitOptions /\ [][CallGetOptions]_vars

\* ---- value_pad_results
MaxPadSlots == 5
MaxPadInterval == 2
MaxPadPoints == 2

\* a point the service returned, with the statistic Sum
PadPoints == { [Timestamp |-> k * 30000, Sum |-> 7, Unit |-> "Percent"] :
                 k \in 0 .. 4 }
PadResultChoices ==
    UNION { [1 .. n -> PadPoints] : n \in 0 .. MaxPadPoints }

InitPad ==
    /\ NoRun
    /\ py3 \in BOOLEAN
    /\ pc = "call"
    /\ fn = "value_pad_results"
    /\ \E rs \in PadResultChoices, st \in {0, 400, 60000},
          n \in 0 .. MaxPadSlots, extra \in {0, 300},
          iv \in 1 .. MaxPadInterval :
         arg = [results |-> rs, start_time |-> st,
                end_time |-> st + n * iv * 60 * 1000 + extra,
                interval |-> iv]
    /\ ret = << >>

CallValuePadResults ==
    /\ pc = "call"
    /\ fn = "value_pad_results"
    /\ ret' = value_pad_results(arg.results, arg.start_time, arg.end_time,
                                arg.interval, 0, py3)
    /\ pc' = "returned"
    /\ UNCHANGED <<fn, arg, defaults_now>>
    /\ NoRunUnchanged

SpecPad == InitPad /\ [][CallValuePadResults]_vars

\* ---- process_log_results
MaxCategories == 2

UnitOnlyFormatter == << Fld("Unit") >>

\* the category entries a message is put together from
CategoryItems ==
    { <<"cpuUtilization", YDict(<< <<"user", YFloat(12)>> >>)>>,
      <<"cpuUtilization", YDict(<< <<"newStat", YInt(1)>> >>)>>,
      <<"swap", YDict(<< <<"free", YInt(9)>>, <<"util", YStr("xvda")>> >>)>>,
      <<"diskIO", YDictList(<< << <<"device", YStr("xvda")>>,
                                 <<"util", YInt(3)>>,
                                 <<"newStat", YInt(5)>> >> >>)>>,
      <<"network", YDictList(<< << <<"interface", YStr("eth0")>>,
                                  <<"rx", YFloat(2)>> >> >>)>>,
      <<"system", YDict(<< <<"threads", YInt(40)>> >>)>>,
      <<"physicalDeviceIO", YDictList(<< << <<"device", YStr("xvda")>>,
                                           <<"util", YInt(4)>> >> >>)>>,
      <<"numVCPUs", YInt(2)>> }

LogMessages ==
    { [decodes |-> TRUE, items |-> << <<"instanceID", YStr("db-A")>> >> \o cs] :
        cs \in UNION { [1 .. n -> CategoryItems] : n \in 0 .. MaxCategories } }
    \cup { [decodes |-> FALSE, items |-> << >>] }

InitLog ==
    /\ NoRun
    /\ py3 \in BOOLEAN
    /\ pc = "call"
    /\ fn = "process_log_results"
    /\ \E m \in LogMessages, f \in {UnitOnlyFormatter, LogFormatter} :
         arg = [events |-> << [ingestionTime |-> 121500, message |-> m] >>,
                options |-> log_options(dict_set(DEFAULT_OPTIONS, "Formatter", f),
                                        [LogGroup |-> "RDSOSMetrics"])]
    /\ ret = << >>

CallProcessLogResults ==
    /\ pc = "call"
    /\ fn = "process_log_results"
    /\ ret' = process_log_results(arg.events, arg.options, py3)
    /\ pc' = "returned"
    /\ UNCHANGED <<fn, arg, defaults_now>>
    /\ NoRunUnchanged

SpecLog == InitLog /\ [][CallProcessLogResults]_vars

(***************************************************************************)
(* Properties of a run                                                     *)
(***************************************************************************)
Min(a, b) == IF a < b THEN a ELSE b

\* the retried call has ended by re-raising the call's exception
Exhausted == error.at = "get_metric_statistics"

\* a call of get_metric_statistics is under way and none of its attempts has
\* returned, or it is exhausted
AllAttemptsFailed == (pc = "attempt" /\ error = NoError) \/ Exhausted

\* C1: a log-events call that fails before the retry deadline has passed is
\* retried like the metrics call, so its failure does not end the run.
C1_LogCallIsRetried ==
    ~(pc = "aborted" /\ error.at = "get_logs_statistics"
      /\ now - attempt_at < stop_max_delay(cli_options))

\* C2 as stated: an always-failing metrics call is exhausted at or after the
\* deadline, and none of its attempts starts later than the deadline.
C2_NoAttemptAfterDeadline ==
    /\ Exhausted => now - first_attempt_ms >= stop_max_delay(cli_options)
    /\ AllAttemptsFailed =>
          attempt_at - first_attempt_ms <= stop_max_delay(cli_options)

\* C2 as amended: an always-failing metrics call is exhausted at or after the
\* deadline; every backoff wait begins before the deadline, and the attempt
\* after it starts less than max_interval after the deadline.
C2_WaitsBeginBeforeDeadline ==
    /\ Exhausted => now - first_attempt_ms >= stop_max_delay(cli_options)
    /\ (pc = "attempt" /\ waits # << >>) =>
          (now - waits[Len(waits)]) - first_attempt_ms
              < stop_max_delay(cli_options)
    /\ AllAttemptsFailed =>
          attempt_at - first_attempt_ms
              < stop_max_delay(cli_options) + max_interval

\* an exhausted call whose last attempt started after the deadline
C2_Witness ==
    /\ Exhausted
    /\ attempt_at - first_attempt_ms > stop_max_delay(cli_options)

RECURSIVE SumOfWaits(_, _, _)
\* sum(min(first * 2^i, max) for i in 0 .. n-1)
SumOfWaits(first, max_wait, n) ==
    IF n = 0 THEN 0
    ELSE SumOfWaits(first, max_wait, n - 1)
         + Min(first * (2 ^ (n - 1)), max_wait)

\* C3 as stated: the wait after the i-th failure (i = 0, 1, ..) is
\* min(interval * 2^i, max_interval), the first wait being interval.
C3_FirstWaitIsInterval ==
    \A k \in DOMAIN waits :
        waits[k] = Min(interval * (2 ^ (k - 1)), max_interval)

\* C3 as amended: the wait after the i-th failure (i = 0, 1, ..) is
\* min(interval * 2^(i+1), max_interval), the first wait being twice the
\* interval; a call that fails N times and then returns has waited the sum of
\* these, which with the N+1 calls' own time is the time since its first
\* attempt.
C3_WaitsDoubleFromTwiceInterval ==
    /\ \A k \in DOMAIN waits :
          waits[k] = Min(interval * (2 ^ k), max_interval)
    /\ pc = "output" =>
          now - first_attempt_ms
              = SumOfWaits(2 * interval, max_interval, Len(waits))
                + (Len(waits) + 1) * call_ms

\* a call that returned after three failures, the third wait being capped
C3_Witness ==
    /\ pc = "output"
    /\ Len(waits) = 3
    /\ waits[2] = 2 * waits[1]
    /\ waits[3] = max_interval
    /\ waits[3] < 2 * waits[2]

\* C4 as stated: every fetch of a metric name uses a window computed for it,
\* none is reused from the fetch of another name.
C4_WindowPerName ==
    \A i, j \in DOMAIN fetch_log :
        i # j => fetch_log[i].window # fetch_log[j].window

\* C4 as amended: a MetricName list of n names yields n fetches, one per name;
\* the window is computed once for the entry of Metrics, afresh for each
\* entry, and the fetches of all names of the entry are passed that window.
C4_WindowPerMetricsEntry ==
    /\ \A i, j \in DOMAIN fetch_log :
          /\ (fetch_log[i].mi = fetch_log[j].mi)
                <=> (fetch_log[i].window = fetch_log[j].window)
          /\ fetch_log[i].mi = fetch_log[j].mi =>
                /\ fetch_log[i].start_time = fetch_log[j].start_time
                /\ fetch_log[i].end_time = fetch_log[j].end_time
          /\ (i # j) =>
                <<fetch_log[i].mi, fetch_log[i].ni>>
                    # <<fetch_log[j].mi, fetch_log[j].ni>>
    /\ (pc \in {"enhanced", "done"} /\ error = NoError) =>
          \A m \in DOMAIN Metrics :
              \A n \in DOMAIN as_list(Metrics[m]["MetricName"]) :
                  \E i \in DOMAIN fetch_log :
                      fetch_log[i].mi = m /\ fetch_log[i].ni = n

\* two names of one entry fetched with one window, after which the next entry
\* is fetched with another, the clock having moved on between the fetches
C4_Witness ==
    /\ Len(fetch_log) = 3
    /\ fetch_log[1].mi = fetch_log[2].mi
    /\ fetch_log[1].window = fetch_log[2].window
    /\ fetch_log[3].window # fetch_log[2].window
    /\ fetch_log[3].end_time # fetch_log[2].end_time

\* C5: whenever a metric's window has been computed, its end is the time of
\* the computation floored to a multiple of the period, with no sub-second
\* part, and end - start is period * count.
C5_WindowEndAligned ==
    pc \in {"fetch", "attempt", "output"} =>
        LET period_ms == options["Period"] * 60 * 1000
        IN  /\ end_time = utcnow_read - (utcnow_read % period_ms)
            /\ end_time % 1000 = 0
            /\ end_time - start_time = period_ms * options["Count"]

\* C9: once the fetch of a metric is exhausted the run has ended: no line is
\* there for that metric name, a later name, a later entry of Metrics or a log
\* stream, no fetch of a later name has begun, no log stream was listed, and
\* from then on nothing is fetched or written and the lines written stay.
C9_ExhaustionEndsRun ==
    [][ /\ Exhausted' =>
            /\ pc' = "aborted"
            /\ \A i \in DOMAIN origins' :
                  /\ origins'[i].stream = ""
                  /\ \/ origins'[i].mi < mi'
                     \/ origins'[i].mi = mi' /\ origins'[i].ni < ni'
            /\ \A i \in DOMAIN fetch_log' :
                  \/ fetch_log'[i].mi < mi'
                  \/ fetch_log'[i].mi = mi' /\ fetch_log'[i].ni <= ni'
            /\ streams' = << >>
        /\ Exhausted =>
            /\ out' = out
            /\ origins' = origins
            /\ fetch_log' = fetch_log
            /\ attempt_at' = attempt_at
            /\ failures' = failures
            /\ streams' = streams
            /\ pc' = pc ]_vars

\* an exhausted fetch with lines of an earlier fetch written and with a later
\* name or entry of Metrics left
C9_Witness ==
    /\ Exhausted
    /\ out # << >>
    /\ ni < Len(metric_names) \/ mi < Len(Metrics)

\* C10: no line written has a '/' or an uppercase letter in its metric name.
C10_NamesSanitized ==
    \A i \in DOMAIN out :
        \A j \in DOMAIN out[i].name :
            out[i].name[j] # "/" /\ ~IsUpper(out[i].name[j])

\* lines of output_results and of output_log_results are written, made from a
\* template, a namespace, a metric name and a unit with '/' and capitals
C10_Witness ==
    /\ \E i \in DOMAIN out : origins[i].stream = ""
    /\ \E i \in DOMAIN out : origins[i].stream # ""
    /\ options["Formatter"] = LogFormatter
    /\ config["Options"] = Some([Formatter |-> ShortFormatter])

\* C11: for a metric name opted in through NullIsZero, every point that
\* output_results is given after value_pad_results, returned by the service
\* or synthesized, has a value under every requested statistic, and
\* output_results writes one line per point and statistic without failing.
C11_PaddedPointsHaveStatistics ==
    [][ (pc = "output" /\ pads(options, metric_name)) =>
            LET stat_keys == as_list(metric["Statistics"])
            IN  /\ \A i \in DOMAIN results' :
                      \A k \in DOMAIN stat_keys :
                          stat_keys[k] \in DOMAIN results'[i]
                /\ error' = NoError
                /\ Len(out') = Len(out) + Len(results') * Len(stat_keys) ]_vars

\* the first value of a metric's Dimensions mapping, '' when the metric has no
\* Dimensions or one that is no mapping
FirstDimensionOrEmpty(m) ==
    IF "Dimensions" \in DOMAIN m /\ m["Dimensions"].type = "dict"
       /\ m["Dimensions"].dict # << >>
    THEN m["Dimensions"].dict[1][2]
    ELSE YStr("")

\* C12: the 'dimension' field of a metric's context is the first value of its
\* Dimensions mapping, and '' when Dimensions is absent or no mapping; the
\* run does not fail at such a metric, whose lines are written.
C12_DimensionDefaultsToEmpty ==
    /\ pc = "output" =>
          /\ dimension_of(this_metric).raised = ""
          /\ dimension_of(this_metric).v = FirstDimensionOrEmpty(metric)
    /\ (pc = "aborted" /\ error.at \in {"leadbutt", "output_results"}) =>
          /\ "Dimensions" \in DOMAIN metric
          /\ metric["Dimensions"].type = "dict"

(***************************************************************************)
(* Properties of the direct calls                                          *)
(***************************************************************************)
\* the expected timestamps of a padding call: start, start + interval, ..
\* below end, both without their sub-second part
ExpectedTimestamps(a) ==
    { t \in { strip_subsecond(a.start_time) + k * a.interval * 60 * 1000 :
                k \in 0 .. MaxPadSlots + 1 } :
        t < strip_subsecond(a.end_time) }

\* C6: value_pad_results returns the original points followed by one
\* synthesized point (value 0, unit Count) for exactly the expected
\* timestamps that no original point has, so that every expected timestamp
\* has a point; an empty input and five intervals give five points.
C6_PadCoversExpected ==
    (pc = "returned" /\ fn = "value_pad_results") =>
        LET n == Len(arg.results)
            had == { arg.results[i]["Timestamp"] : i \in 1 .. n }
            added == { ret[i]["Timestamp"] : i \in (n + 1) .. Len(ret) }
        IN  /\ \A t \in ExpectedTimestamps(arg) :
                  \E i \in DOMAIN ret : ret[i]["Timestamp"] = t
            /\ SubSeq(ret, 1, n) = arg.results
            /\ added = ExpectedTimestamps(arg) \ had
            /\ Len(ret) - n = Cardinality(added)
            /\ \A i \in (n + 1) .. Len(ret) :
                  ret[i]["Sum"] = 0 /\ ret[i]["Unit"] = "Count"
            /\ (n = 0 /\ arg.end_time
                             = arg.start_time + 5 * arg.interval * 60 * 1000)
                  => Len(ret) = 5

\* the tiers of a get_options call, lowest precedence first
Tiers == << Some(DEFAULT_OPTIONS), arg.config_options, arg.local_options,
            arg.cli_options >>
DefinedIn(k) == { t \in 1 .. 4 : Tiers[t] # None /\ k \in DOMAIN Tiers[t][1] }
Highest(S) == CHOOSE t \in S : \A u \in S : u <= t

\* C7: get_options returns, for every key some tier defines, the value of the
\* highest tier that defines it (defaults < config < per-metric < command
\* line), skipping tiers that are None, and leaves DEFAULT_OPTIONS and its
\* arguments as they were.
C7_HighestTierWins ==
    (pc = "returned" /\ fn = "get_options") =>
        /\ DOMAIN ret.ret = { k \in OptKeys \cup DOMAIN DEFAULT_OPTIONS :
                                DefinedIn(k) # {} }
        /\ \A k \in DOMAIN ret.ret :
              ret.ret[k] = Tiers[Highest(DefinedIn(k))][1][k]
        /\ defaults_now = DEFAULT_OPTIONS
        /\ ret.DEFAULT_OPTIONS = DEFAULT_OPTIONS
        /\ ret.config_options = arg.config_options
        /\ ret.local_options = arg.local_options
        /\ ret.cli_options = arg.cli_options

\* a key that all four tiers define, the per-metric and the command line value
\* differing, with another key that only the config tier defines
C7_Witness ==
    /\ pc = "returned"
    /\ fn = "get_options"
    /\ DefinedIn("Period") = 1 .. 4
    /\ arg.local_options[1]["Period"] # arg.cli_options[1]["Period"]
    /\ arg.config_options[1]["Period"] # arg.cli_options[1]["Period"]
    /\ DefinedIn("NullIsZero") = {2}

\* the numeric statistics of a decoded message, as <<category, statistic>>,
\* of its mapping-shaped and list-shaped categories
NumericStatistics(items) ==
    UNION { { <<items[c][1], items[c][2].dict[k][1]>> :
                k \in { k \in DOMAIN items[c][2].dict :
                          is_number(items[c][2].dict[k][2]) } } :
            c \in { c \in DOMAIN items : items[c][2].type = "dict" } } \cup
    UNION { UNION { { <<items[c][1], items[c][2].dicts[d][k][1]>> :
                        k \in { k \in DOMAIN items[c][2].dicts[d] :
                                  is_number(items[c][2].dicts[d][k][2]) } } :
                    d \in DOMAIN items[c][2].dicts } :
            c \in { c \in DOMAIN items : items[c][2].type = "list" } }

\* the unit of the static table, Count where the table has none
UnitOrCount(category, statistic) ==
    IF category \in DOMAIN unit_map /\ statistic \in DOMAIN unit_map[category]
    THEN unit_map[category][statistic]
    ELSE "Count"

\* C8: process_log_results does not fail on a decoded message, whatever its
\* categories, and writes for its numeric statistics lines whose units are
\* those of the static table, Count for a category or statistic not in it.
C8_UnknownDefaultsToCount ==
    (pc = "returned" /\ fn = "process_log_results"
     /\ arg.events[1].message.decodes) =>
        LET stats == NumericStatistics(arg.events[1].message.items)
        IN  /\ ret.error = ""
            /\ stats # {} => ret.lines # << >>
            /\ arg.options["Formatter"] = UnitOnlyFormatter =>
                  { ret.lines[i].name : i \in DOMAIN ret.lines }
                      = { metric_name_of(UnitOnlyFormatter,
                                         [Unit |-> YStr(UnitOrCount(p[1], p[2]))]) :
                            p \in stats }

====
